---- MODULE Spec2Model ----
(***************************************************************************)
(* ModelSelectUtil (python/model_select_util.py): two cascading dropdowns, *)
(* the provider one filtered by API keys found in the process environment. *)
(* The object's fields are the variables; every Dropdown ever constructed  *)
(* lives in the heap `dropdowns`, because a replaced control keeps its     *)
(* observer and can still deliver change events.                           *)
(***************************************************************************)
EXTENDS Integers, Sequences, FiniteSets, TLC

VARIABLES
    dropdowns,            \* heap: every widgets.Dropdown constructed so far
    platform_dropdown,    \* self.platform_dropdown: reference into the heap
    model_dropdown,       \* self.model_dropdown: reference into the heap
    selected_platform,    \* self.selected_platform
    selected_model,       \* self.selected_model
    platform_output,      \* what self.platform_output shows
    model_output,         \* what self.model_output shows
    available_platforms,  \* the list built by the latest select_platform_widget
    last                  \* the operation that produced this state

vars == <<dropdowns, platform_dropdown, model_dropdown, selected_platform,
          selected_model, platform_output, model_output, available_platforms,
          last>>

----------------------------------------------------------------------------
(* Bounds *)

\* Dropdown objects constructed during one run.
MaxDropdowns == 3

\* Platform dropdowns constructed during one run of SpecEnviron, which calls
\* select_platform_widget under every environment.
MaxEnvironDropdowns == 1

----------------------------------------------------------------------------
(* Python values *)

\* Python's None, for the string-valued fields and for os.getenv.
None == "<None>"

\* self.platform_dropdown = None / self.model_dropdown = None: the null reference.
NullRef == 0

\* Truth value of a str-or-None, as `if x:` / `not x` / bool(x) take it.
Truthy(x) == x # None /\ x # ""

----------------------------------------------------------------------------
(* Class tables *)

\* Insertion order of the model_configs dict, which .items() iterates in.
PlatformOrder == <<"OpenAI", "Deepseek", "Gemini", "Anthropic">>

model_configs ==
    [OpenAI    |-> << <<"gpt-4o", "openai">>,
                      <<"gpt-3.5-turbo", "openai">>,
                      <<"gpt-5-nano", "openai">> >>,
     Deepseek  |-> << <<"deepseek-chat", "deepseek">>,
                      <<"deepseek-coder", "deepseek">> >>,
     Gemini    |-> << <<"gemini-pro", "gemini">>,
                      <<"gemini-flash", "gemini">> >>,
     Anthropic |-> << <<"claude-3-sonnet-20240229", "anthropic">>,
                      <<"claude-2.1", "anthropic">> >>]

api_key_map ==
    [openai    |-> "OPENAI_API_KEY",
     deepseek  |-> "DEEPSEEK_API_KEY",
     gemini    |-> "GEMINI_API_KEY",
     anthropic |-> "ANTHROPIC_API_KEY"]

\* self.model_configs.get(name, [])
model_configs_get(name) ==
    IF name \in DOMAIN model_configs THEN model_configs[name] ELSE <<>>

\* self.api_key_map.get(platform_key)
api_key_map_get(platform_key) ==
    IF platform_key \in DOMAIN api_key_map THEN api_key_map[platform_key] ELSE None

----------------------------------------------------------------------------
(* The process environment, read at call time *)

EnvVars == {"OPENAI_API_KEY", "DEEPSEEK_API_KEY", "GEMINI_API_KEY", "ANTHROPIC_API_KEY"}

\* A variable is unset, set to the empty string, or set to a key.
Unset == "<unset>"
EnvValues == {Unset, "", "sk-test"}
Environ == [EnvVars -> EnvValues]

\* The environments the calls of Spec run under: no variable set, none with a
\* key (unset and empty mixed), every key, one key, two keys.
SampleEnviron ==
    {[v \in EnvVars |-> Unset],
     [v \in EnvVars |-> IF v \in {"OPENAI_API_KEY", "GEMINI_API_KEY"} THEN "" ELSE Unset],
     [v \in EnvVars |-> "sk-test"],
     [v \in EnvVars |-> IF v = "GEMINI_API_KEY" THEN "sk-test" ELSE ""],
     [v \in EnvVars |-> IF v = "OPENAI_API_KEY" THEN Unset
                        ELSE IF v = "GEMINI_API_KEY" THEN "" ELSE "sk-test"]}

\* os.getenv(env_var): None for an unset variable, else its string.
getenv(environ, env_var) ==
    IF env_var \in DOMAIN environ /\ environ[env_var] # Unset
    THEN environ[env_var] ELSE None

\* Mutant: a variable that is set counts as a key, empty or not.
check_api_key_is_set(environ, platform_key) ==
    LET env_var == api_key_map_get(platform_key) IN
    IF Truthy(env_var) THEN getenv(environ, env_var) # None ELSE FALSE

_check_api_key_exists(environ, platform_key) ==
    LET env_var == api_key_map_get(platform_key) IN
    IF Truthy(env_var) THEN Truthy(getenv(environ, env_var)) ELSE FALSE

----------------------------------------------------------------------------
(* Widgets *)

\* widgets.Dropdown(options=..., value=..., description=...)
Dropdown(options, value, description) ==
    [options |-> options, value |-> value, description |-> description]

\* Content of a widgets.Output after clear_output(wait=True) and one
\* print(text) or display(widget).
OutputEmpty == [text |-> "", widget |-> NullRef]
OutputText(text) == [text |-> text, widget |-> NullRef]
OutputWidget(ref) == [text |-> "", widget |-> ref]

NoKeysMessage ==
    "No API keys found for any configured platform. Please check your .env file."

NoModelsMessage(platform) == "No models configured for " \o platform \o "."

----------------------------------------------------------------------------
(* The object: its fields as one record, and the methods as functions on it *)

Self ==
    [dropdowns           |-> dropdowns,
     platform_dropdown   |-> platform_dropdown,
     model_dropdown      |-> model_dropdown,
     selected_platform   |-> selected_platform,
     selected_model      |-> selected_model,
     platform_output     |-> platform_output,
     model_output        |-> model_output,
     available_platforms |-> available_platforms]

\* __init__
Constructed ==
    [dropdowns           |-> <<>>,
     platform_dropdown   |-> NullRef,
     model_dropdown      |-> NullRef,
     selected_platform   |-> None,
     selected_model      |-> None,
     platform_output     |-> OutputEmpty,
     model_output        |-> OutputEmpty,
     available_platforms |-> <<>>]

\* The for loop of select_platform_widget, from the i-th entry of the table on.
RECURSIVE available_loop(_, _, _)
available_loop(environ, i, acc) ==
    IF i > Len(PlatformOrder) THEN acc
    ELSE LET platform_name == PlatformOrder[i]
             configs       == model_configs[platform_name]
             platform_key  == configs[1][2]
         IN  available_loop(environ, i + 1,
                 IF _check_api_key_exists(environ, platform_key)
                 THEN Append(acc, platform_name) ELSE acc)

\* Mutant: finding no key also clears the recorded provider.
select_platform_widget_clearing(self, environ) ==
    LET available == available_loop(environ, 1, <<>>) IN
    IF available = <<>>
    THEN [self EXCEPT !.platform_output = OutputText(NoKeysMessage),
                      !.selected_platform = None,
                      !.available_platforms = available]
    ELSE LET heap == Append(self.dropdowns,
                            Dropdown(available, available[1], "Platform:"))
         IN  [self EXCEPT !.dropdowns = heap,
                          !.platform_dropdown = Len(heap),
                          !.selected_platform = available[1],
                          !.platform_output = OutputWidget(Len(heap)),
                          !.available_platforms = available]

\* Mutant: the new dropdown's default is not recorded as the selection.
select_platform_widget_unrecorded(self, environ) ==
    LET available == available_loop(environ, 1, <<>>) IN
    IF available = <<>>
    THEN [self EXCEPT !.platform_output = OutputText(NoKeysMessage),
                      !.available_platforms = available]
    ELSE LET heap == Append(self.dropdowns,
                            Dropdown(available, available[1], "Platform:"))
         IN  [self EXCEPT !.dropdowns = heap,
                          !.platform_dropdown = Len(heap),
                          !.platform_output = OutputWidget(Len(heap)),
                          !.available_platforms = available]

\* Mutant: the recorded selection is the first provider of the table, with a
\* key or without.
select_platform_widget_first_configured(self, environ) ==
    LET available == available_loop(environ, 1, <<>>) IN
    IF available = <<>>
    THEN [self EXCEPT !.platform_output = OutputText(NoKeysMessage),
                      !.available_platforms = available]
    ELSE LET heap == Append(self.dropdowns,
                            Dropdown(available, available[1], "Platform:"))
         IN  [self EXCEPT !.dropdowns = heap,
                          !.platform_dropdown = Len(heap),
                          !.selected_platform = PlatformOrder[1],
                          !.platform_output = OutputWidget(Len(heap)),
                          !.available_platforms = available]

select_platform_widget(self, environ) ==
    LET available == available_loop(environ, 1, <<>>) IN
    IF available = <<>>
    THEN [self EXCEPT !.platform_output = OutputText(NoKeysMessage),
                      !.available_platforms = available]
    ELSE LET heap == Append(self.dropdowns,
                            Dropdown(available, available[1], "Platform:"))
         IN  [self EXCEPT !.dropdowns = heap,
                          !.platform_dropdown = Len(heap),
                          !.selected_platform = available[1],
                          !.platform_output = OutputWidget(Len(heap)),
                          !.available_platforms = available]

\* [model_name for model_name, _ in configs]
model_names(configs) == [i \in 1..Len(configs) |-> configs[i][1]]

select_model_widget(self) ==
    IF ~Truthy(self.selected_platform) THEN self
    ELSE LET model_options == model_names(model_configs_get(self.selected_platform)) IN
         IF model_options = <<>>
         THEN [self EXCEPT !.model_output =
                               OutputText(NoModelsMessage(self.selected_platform))]
         ELSE LET heap == Append(self.dropdowns,
                                 Dropdown(model_options, model_options[1], "Model:"))
              IN  [self EXCEPT !.dropdowns = heap,
                               !.model_dropdown = Len(heap),
                               !.selected_model = model_options[1],
                               !.model_output = OutputWidget(Len(heap))]

\* Mutant: the observer records the provider and leaves the model dropdown.
on_platform_change_no_refresh(self, change) ==
    IF change.type = "change" /\ change.name = "value"
    THEN [self EXCEPT !.selected_platform = change.new]
    ELSE self

\* The observer registered on a platform dropdown.
on_platform_change(self, change) ==
    IF change.type = "change" /\ change.name = "value"
    THEN select_model_widget([self EXCEPT !.selected_platform = change.new])
    ELSE self

\* Mutant: the observer applies every notification it is given.
on_model_change_any_event(self, change) ==
    [self EXCEPT !.selected_model = change.new]

\* The observer registered on a model dropdown.
on_model_change(self, change) ==
    IF change.type = "change" /\ change.name = "value"
    THEN [self EXCEPT !.selected_model = change.new]
    ELSE self

get_selected_platform(self) == self.selected_platform

get_selected_model(self) == self.selected_model

\* The for loop of get_model_params, from the i-th pair on.
RECURSIVE params_loop(_, _, _)
params_loop(configs, model, i) ==
    IF i > Len(configs) THEN None
    ELSE IF configs[i][1] = model
         THEN configs[i][2] \o ":" \o configs[i][1]
         ELSE params_loop(configs, model, i + 1)

get_model_params(self) ==
    IF ~Truthy(self.selected_platform) \/ ~Truthy(self.selected_model) THEN None
    ELSE params_loop(model_configs_get(self.selected_platform), self.selected_model, 1)

\* `if platform_widget:` on the widgets.Output that select_platform_widget
\* returns: a widget object defines neither __bool__ nor __len__.
OutputIsTruthy(output) == TRUE

\* Mutant: the model selection is not initialised.
display_widgets_platform_only(self, environ) ==
    select_platform_widget(self, environ)

display_widgets(self, environ) ==
    LET after_platform == select_platform_widget(self, environ) IN
    IF OutputIsTruthy(after_platform.platform_output)
    THEN select_model_widget(after_platform)
    ELSE after_platform

----------------------------------------------------------------------------
(* Actions *)

\* The fields take the values of the record a method returns.
Becomes(self) ==
    /\ Len(self.dropdowns) <= MaxDropdowns
    /\ dropdowns' = self.dropdowns
    /\ platform_dropdown' = self.platform_dropdown
    /\ model_dropdown' = self.model_dropdown
    /\ selected_platform' = self.selected_platform
    /\ selected_model' = self.selected_model
    /\ platform_output' = self.platform_output
    /\ model_output' = self.model_output
    /\ available_platforms' = self.available_platforms

\* What `last` records: the method or observer that ran, whether it ran on a
\* freshly constructed object, the environment a method read, and the change
\* event an observer was given (its new value only when it is a change of
\* value; the observers read it in no other case).
Op(op, fresh, environ, change) ==
    [op |-> op, fresh |-> fresh, environ |-> environ, change |-> change]

NoEnviron == [v \in EnvVars |-> None]
NoChange == [type |-> None, name |-> None, new |-> None]

Fresh == last.op = "__init__"

Init ==
    /\ dropdowns = Constructed.dropdowns
    /\ platform_dropdown = Constructed.platform_dropdown
    /\ model_dropdown = Constructed.model_dropdown
    /\ selected_platform = Constructed.selected_platform
    /\ selected_model = Constructed.selected_model
    /\ platform_output = Constructed.platform_output
    /\ model_output = Constructed.model_output
    /\ available_platforms = Constructed.available_platforms
    /\ last = Op("__init__", FALSE, NoEnviron, NoChange)

\* select_platform_widget() is called while the environment is one of `environs`.
CallSelectPlatformWidget(environs) ==
    \E environ \in environs :
        /\ Becomes(select_platform_widget(Self, environ))
        /\ last' = Op("select_platform_widget", Fresh, environ, NoChange)

CallSelectModelWidget ==
    /\ Becomes(select_model_widget(Self))
    /\ last' = Op("select_model_widget", Fresh, NoEnviron, NoChange)

CallDisplayWidgets(environs) ==
    \E environ \in environs :
        /\ Becomes(display_widgets(Self, environ))
        /\ last' = Op("display_widgets", Fresh, environ, NoChange)

Range(seq) == {seq[i] : i \in 1..Len(seq)}

IsPlatformDropdown(ref) == dropdowns[ref].description = "Platform:"
IsModelDropdown(ref) == dropdowns[ref].description = "Model:"

\* The value trait of dropdown `ref` is set to another of its options (by the
\* user in the front end, or by assignment); traitlets then notifies the
\* dropdown's observers with a 'change' of 'value'.
ValueChanged(ref, new) == [Self EXCEPT !.dropdowns[ref].value = new]

ValueChange(new) == [type |-> "change", name |-> "value", new |-> new]

PlatformValueChange ==
    \E ref \in 1..Len(dropdowns) :
        /\ IsPlatformDropdown(ref)
        /\ \E new \in Range(dropdowns[ref].options) \ {dropdowns[ref].value} :
              /\ Becomes(on_platform_change(ValueChanged(ref, new), ValueChange(new)))
              /\ last' = Op("on_platform_change", FALSE, NoEnviron, ValueChange(new))

ModelValueChange ==
    \E ref \in 1..Len(dropdowns) :
        /\ IsModelDropdown(ref)
        /\ \E new \in Range(dropdowns[ref].options) \ {dropdowns[ref].value} :
              /\ Becomes(on_model_change(ValueChanged(ref, new), ValueChange(new)))
              /\ last' = Op("on_model_change", FALSE, NoEnviron, ValueChange(new))

\* Notifications that reach an observer registered without a names filter and
\* are not a change of value: another trait of the dropdown changed (its
\* label), or the event is of another type. The dropdown's value stays as it is.
OtherNotifications == {<<"change", "label">>, <<"custom", "value">>}

PlatformOtherNotification ==
    \E ref \in 1..Len(dropdowns), n \in OtherNotifications :
        /\ IsPlatformDropdown(ref)
        /\ \E new \in Range(dropdowns[ref].options) :
              /\ Becomes(on_platform_change(Self,
                             [type |-> n[1], name |-> n[2], new |-> new]))
              /\ last' = Op("on_platform_change", FALSE, NoEnviron,
                            [type |-> n[1], name |-> n[2], new |-> None])

ModelOtherNotification ==
    \E ref \in 1..Len(dropdowns), n \in OtherNotifications :
        /\ IsModelDropdown(ref)
        /\ \E new \in Range(dropdowns[ref].options) :
              /\ Becomes(on_model_change(Self,
                             [type |-> n[1], name |-> n[2], new |-> new]))
              /\ last' = Op("on_model_change", FALSE, NoEnviron,
                            [type |-> n[1], name |-> n[2], new |-> None])

Next ==
    \/ CallSelectPlatformWidget(SampleEnviron)
    \/ CallSelectModelWidget
    \/ CallDisplayWidgets(SampleEnviron)
    \/ PlatformValueChange
    \/ ModelValueChange
    \/ PlatformOtherNotification
    \/ ModelOtherNotification

Spec == Init /\ [][Next]_vars

\* select_platform_widget as a function of the environment: called again and
\* again, each time under any of the 81 environments.
NextEnviron ==
    /\ CallSelectPlatformWidget(Environ)
    /\ Len(dropdowns') <= MaxEnvironDropdowns

SpecEnviron == Init /\ [][NextEnviron]_vars

----------------------------------------------------------------------------
(* Vocabulary of the properties *)

Platforms == Range(PlatformOrder)

\* The environment variable a provider's key is looked up under.
KeyVariable(platform) == api_key_map[model_configs[platform][1][2]]

\* The provider's variable is set and not empty.
HasKey(environ, platform) == environ[KeyVariable(platform)] \notin {Unset, ""}

SomeKey(environ) == \E platform \in Platforms : HasKey(environ, platform)

\* Position of a provider in the table.
TableIndex(platform) == CHOOSE i \in 1..Len(PlatformOrder) : PlatformOrder[i] = platform

\* The first provider of the table that has a key.
FirstWithKey(environ) ==
    PlatformOrder[CHOOSE i \in 1..Len(PlatformOrder) :
                      /\ HasKey(environ, PlatformOrder[i])
                      /\ \A j \in 1..(i - 1) : ~HasKey(environ, PlatformOrder[j])]

ModelsOf(platform) == {pair[1] : pair \in Range(model_configs[platform])}
FirstModel(platform) == model_configs[platform][1][1]
ModelList(platform) == [i \in 1..Len(model_configs[platform]) |-> model_configs[platform][i][1]]

Applied(change) == change.type = "change" /\ change.name = "value"

AfterSelectPlatformWidget == last.op = "select_platform_widget"
AfterPlatformChange == last.op = "on_platform_change" /\ Applied(last.change)
AfterModelChange == last.op = "on_model_change" /\ Applied(last.change)

----------------------------------------------------------------------------
(* C1 *)

\* C1: the list select_platform_widget computes holds exactly the providers
\* whose variable is set and non-empty in the environment of that call, each
\* once, in table order, whatever earlier calls computed.
C1_AvailableMatchesEnvironment ==
    AfterSelectPlatformWidget =>
        /\ \A platform \in Platforms :
               platform \in Range(available_platforms) <=> HasKey(last.environ, platform)
        /\ \A i, j \in 1..Len(available_platforms) :
               i < j => TableIndex(available_platforms[i]) < TableIndex(available_platforms[j])

\* A call under an environment with an unset, an empty and two set variables.
C1_Witness ==
    /\ AfterSelectPlatformWidget
    /\ last.environ["OPENAI_API_KEY"] = Unset
    /\ last.environ["GEMINI_API_KEY"] = ""
    /\ available_platforms = <<"Deepseek", "Anthropic">>

----------------------------------------------------------------------------
(* C2, C3 *)

\* C2: whenever a provider and a model are both recorded as selected, the
\* model is one of the selected provider's models.
C2_SelectedModelBelongsToSelectedPlatform ==
    (Truthy(selected_platform) /\ Truthy(selected_model)) =>
        selected_model \in ModelsOf(selected_platform)

\* C3: get_model_params is "<provider_key>:<model_name>" of the selected pair
\* whenever both are set, and None when either is unset.
C3_ParamsOfSelectedPair ==
    IF Truthy(selected_platform) /\ Truthy(selected_model)
    THEN \E pair \in Range(model_configs[selected_platform]) :
             /\ pair[1] = selected_model
             /\ get_model_params(Self) = pair[2] \o ":" \o selected_model
    ELSE get_model_params(Self) = None

----------------------------------------------------------------------------
(* C4 *)

\* C4: right after a provider-change event with new value P, the selected
\* provider is P, the selected model is P's first model, and the model
\* dropdown offers exactly P's models in table order with the first as value.
C4_PlatformChangeResetsModel ==
    AfterPlatformChange =>
        /\ selected_platform = last.change.new
        /\ selected_model = FirstModel(last.change.new)
        /\ model_dropdown # NullRef
        /\ dropdowns[model_dropdown].description = "Model:"
        /\ dropdowns[model_dropdown].options = ModelList(last.change.new)
        /\ dropdowns[model_dropdown].value = FirstModel(last.change.new)

\* The provider changes to Deepseek after the user had picked OpenAI's third
\* model on the dropdown this event replaces.
C4_Witness ==
    /\ AfterPlatformChange
    /\ last.change.new = "Deepseek"
    /\ selected_model = "deepseek-chat"
    /\ \E ref \in 1..Len(dropdowns) : dropdowns[ref].value = "gpt-5-nano"

----------------------------------------------------------------------------
(* C5, C6 *)

\* C5: a select_platform_widget call under an environment with no key
\* computes the empty list, writes the message to the provider output,
\* constructs no dropdown, and leaves the provider dropdown, the selected
\* provider and the selected model as they were.
C5_NoKeyLeavesSelection ==
    [][(last'.op = "select_platform_widget" /\ ~SomeKey(last'.environ)) =>
          /\ available_platforms' = <<>>
          /\ platform_output' = OutputText(NoKeysMessage)
          /\ dropdowns' = dropdowns
          /\ platform_dropdown' = platform_dropdown
          /\ selected_platform' = selected_platform
          /\ selected_model' = selected_model]_vars

\* The call found no key while Deepseek's second model was selected.
C5_Witness ==
    /\ AfterSelectPlatformWidget
    /\ ~SomeKey(last.environ)
    /\ platform_output = OutputText(NoKeysMessage)
    /\ platform_dropdown # NullRef
    /\ selected_platform = "Deepseek"
    /\ selected_model = "deepseek-coder"

\* C6: a select_platform_widget call that finds a key constructs the provider
\* dropdown with the available list as options and its first entry as value,
\* and records that first entry as the selected provider.
C6_PlatformDropdownDefaults ==
    (AfterSelectPlatformWidget /\ SomeKey(last.environ)) =>
        /\ available_platforms # <<>>
        /\ platform_dropdown = Len(dropdowns)
        /\ platform_output = OutputWidget(platform_dropdown)
        /\ dropdowns[platform_dropdown].description = "Platform:"
        /\ dropdowns[platform_dropdown].options = available_platforms
        /\ dropdowns[platform_dropdown].value = available_platforms[1]
        /\ selected_platform = available_platforms[1]

\* The call replaces a dropdown on which another provider had been picked.
C6_Witness ==
    /\ AfterSelectPlatformWidget
    /\ available_platforms = <<"Deepseek", "Anthropic">>
    /\ selected_platform = "Deepseek"
    /\ platform_dropdown > 1
    /\ \E ref \in 1..Len(dropdowns) :
           IsPlatformDropdown(ref) /\ dropdowns[ref].value = "Gemini"

----------------------------------------------------------------------------
(* C7 *)

\* C7: a model-change event with new value M sets the selected model to M and
\* leaves the selected provider, the provider dropdown, both references and
\* every dropdown's options as they were; a notification that is not a
\* 'change' of 'value' changes neither recorded selection.
C7_ModelChangeFrame ==
    [][/\ (last'.op = "on_model_change" /\ Applied(last'.change)) =>
              /\ selected_model' = last'.change.new
              /\ selected_platform' = selected_platform
              /\ platform_dropdown' = platform_dropdown
              /\ model_dropdown' = model_dropdown
              /\ platform_output' = platform_output
              /\ model_output' = model_output
              /\ Len(dropdowns') = Len(dropdowns)
              /\ \A ref \in 1..Len(dropdowns) :
                     /\ dropdowns'[ref].options = dropdowns[ref].options
                     /\ IsPlatformDropdown(ref) => dropdowns'[ref] = dropdowns[ref]
       /\ (last'.op \in {"on_model_change", "on_platform_change"}
               /\ ~Applied(last'.change)) =>
              /\ selected_platform' = selected_platform
              /\ selected_model' = selected_model
              /\ dropdowns' = dropdowns]_vars

\* The user picks OpenAI's third model.
C7_Witness ==
    /\ AfterModelChange
    /\ last.change.new = "gpt-5-nano"
    /\ selected_model = "gpt-5-nano"
    /\ selected_platform = "OpenAI"

----------------------------------------------------------------------------
(* C8 *)

\* C8: display_widgets on a freshly constructed object selects the first
\* provider of the table that has a key, that provider's first model, and
\* makes get_model_params "<its key>:<that model>"; with no key the three
\* accessors return None and no model dropdown exists.
C8_DisplayWidgetsOnFreshObject ==
    (last.op = "display_widgets" /\ last.fresh) =>
        IF SomeKey(last.environ)
        THEN LET platform == FirstWithKey(last.environ) IN
             /\ get_selected_platform(Self) = platform
             /\ get_selected_model(Self) = FirstModel(platform)
             /\ get_model_params(Self) =
                    model_configs[platform][1][2] \o ":" \o FirstModel(platform)
        ELSE /\ get_selected_platform(Self) = None
             /\ get_selected_model(Self) = None
             /\ get_model_params(Self) = None
             /\ model_dropdown = NullRef
             /\ dropdowns = <<>>

\* The first provider with a key is the third of the table.
C8_Witness ==
    /\ last.op = "display_widgets"
    /\ last.fresh
    /\ last.environ["OPENAI_API_KEY"] = ""
    /\ selected_platform = "Gemini"
    /\ get_model_params(Self) = "gemini:gemini-pro"

----------------------------------------------------------------------------
(* C9 *)

\* C9: the recorded provider is the value of the current provider dropdown,
\* the recorded model is the value of the current model dropdown, and the
\* current model dropdown offers the models of the recorded provider.
C9_SelectionMirrorsCurrentDropdowns ==
    /\ platform_dropdown # NullRef =>
           selected_platform = dropdowns[platform_dropdown].value
    /\ model_dropdown # NullRef =>
           /\ selected_model = dropdowns[model_dropdown].value
           /\ Truthy(selected_platform)
           /\ dropdowns[model_dropdown].options = ModelList(selected_platform)

----------------------------------------------------------------------------
(* C10 *)

\* C10 as claimed: a recorded provider is in the list the latest
\* select_platform_widget call computed, so that after a call that found no
\* key no provider is recorded and get_model_params is None.
C10_SelectedInLatestAvailable ==
    /\ Truthy(selected_platform) => selected_platform \in Range(available_platforms)
    /\ (last.op \in {"select_platform_widget", "display_widgets"}
            /\ available_platforms = <<>>) =>
           /\ selected_platform = None
           /\ get_model_params(Self) = None

\* C10 as amended: a recorded provider is an option of some provider dropdown
\* constructed so far, that is, a member of the list some select_platform_widget
\* call computed, the latest or an earlier one.
C10_SelectedWasAvailable ==
    Truthy(selected_platform) =>
        \E ref \in 1..Len(dropdowns) :
            /\ IsPlatformDropdown(ref)
            /\ selected_platform \in Range(dropdowns[ref].options)

\* The latest call found no key and the selection made before it stands.
C10_Witness ==
    /\ AfterSelectPlatformWidget
    /\ available_platforms = <<>>
    /\ selected_platform = "OpenAI"
    /\ get_model_params(Self) = "openai:gpt-4o"

====
